---- MODULE Spec2Model ----
(***************************************************************************)
(* Model of the document-processing backend: the Document Record state     *)
(* machine driven by the upload / process / status / download endpoints    *)
(* and the background ProcessingService, and the filename utilities that   *)
(* derive storage keys and download names.                                 *)
(*                                                                         *)
(* Characters are modelled by their code points and strings by sequences   *)
(* of code points, so that character classes (control characters, upper    *)
(* casing) are computed the way the code computes them.                    *)
(***************************************************************************)
EXTENDS Integers, Sequences, FiniteSets, TLC

(***************************************************************************)
(* Bounds of the model                                                     *)
(***************************************************************************)
\* Longest base name (in characters) the filename utilities are applied to
MaxNameLen == 4
\* Number of POST /process/{id} requests that schedule a processing run
MaxProcessCalls == 1
\* Largest elapsed time, in seconds, the progress estimate is computed for
MaxElapsed == 200

(***************************************************************************)
(* Characters                                                              *)
(***************************************************************************)
NUL == 0
SPACE == 32
DQUOTE == 34
DOT == 46
SLASH == 47
BACKSLASH == 92
UNDERSCORE == 95

\* "document", ".md", "document.md"
DocumentStr == <<100, 111, 99, 117, 109, 101, 110, 116>>
DotMd == <<46, 109, 100>>
DocumentMd == DocumentStr \o DotMd

\* The characters filenames are drawn from: NUL, space, double quote, dot,
\* slash, backslash and the letters c, o, n.
Alphabet == {NUL, SPACE, DQUOTE, DOT, SLASH, BACKSLASH, 99, 111, 110}

RECURSIVE SeqsUpTo(_, _)
SeqsUpTo(S, n) ==
    IF n = 0 THEN {<< >>}
    ELSE LET shorter == SeqsUpTo(S, n - 1)
         IN  shorter \cup {Append(s, c) : s \in {t \in shorter : Len(t) = n - 1}, c \in S}

\* ".p", an extension as uploaded files carry one
DotP == <<46, 112>>

\* The filenames the utilities are applied to: every string of at most
\* MaxNameLen characters, alone and followed by an extension
Names == {b \o e : b \in SeqsUpTo(Alphabet, MaxNameLen), e \in {<< >>, DotP}}

(***************************************************************************)
(* String helpers (Python str / re / os.path / pathlib semantics)          *)
(***************************************************************************)
\* c in s
Contains(s, c) == \E i \in 1..Len(s) : s[i] = c

\* sub in s, for a two-character sub
ContainsPair(s, a, b) == \E i \in 1..(Len(s) - 1) : s[i] = a /\ s[i + 1] = b

\* s.rfind(c), 1-based, 0 when absent
RFind(s, c) ==
    IF Contains(s, c) THEN CHOOSE i \in 1..Len(s) : s[i] = c /\ \A j \in (i + 1)..Len(s) : s[j] # c
    ELSE 0

\* s[:n] and s[n:] with 0-based n
Prefix(s, n) == SubSeq(s, 1, n)
Suffix(s, n) == SubSeq(s, n + 1, Len(s))

\* re.sub(r'[class]', '', s)
RemoveChars(s, class) == SelectSeq(s, LAMBDA c : c \notin class)

\* s.replace(a, b) for single characters
ReplaceChar(s, a, b) == [i \in 1..Len(s) |-> IF s[i] = a THEN b ELSE s[i]]

\* re.sub(r'_+', '_', s)
RECURSIVE CollapseUnderscores(_)
CollapseUnderscores(s) ==
    IF Len(s) < 2 THEN s
    ELSE IF s[1] = UNDERSCORE /\ s[2] = UNDERSCORE THEN CollapseUnderscores(Tail(s))
    ELSE <<s[1]>> \o CollapseUnderscores(Tail(s))

\* s.lstrip(chars), s.rstrip(chars), s.strip(chars)
RECURSIVE LStrip(_, _)
LStrip(s, chars) ==
    IF s # << >> /\ s[1] \in chars THEN LStrip(Tail(s), chars) ELSE s

RECURSIVE RStrip(_, _)
RStrip(s, chars) ==
    IF s # << >> /\ s[Len(s)] \in chars THEN RStrip(SubSeq(s, 1, Len(s) - 1), chars) ELSE s

Strip(s, chars) == RStrip(LStrip(s, chars), chars)

\* c.upper() for ASCII letters
UpperChar(c) == IF c >= 97 /\ c <= 122 THEN c - 32 ELSE c
Upper(s) == [i \in 1..Len(s) |-> UpperChar(s[i])]

\* os.path.basename (posixpath): everything after the last '/'
basename(p) == Suffix(p, RFind(p, SLASH))

\* os.path.splitext (genericpath._splitext): the extension starts at the last
\* dot of the last component, leading dots of that component do not count
splitext(p) ==
    LET sepIndex == RFind(p, SLASH)
        dotIndex == RFind(p, DOT)
    IN  IF dotIndex > sepIndex
           /\ \E k \in (sepIndex + 1)..(dotIndex - 1) : p[k] # DOT
        THEN <<Prefix(p, dotIndex - 1), Suffix(p, dotIndex - 1)>>
        ELSE <<p, << >> >>

(***************************************************************************)
(* app/utils/filename_utils.py                                             *)
(***************************************************************************)
\* [\x00-\x1f\x7f-\x9f]
ControlChars == (0..31) \cup (127..159)

\* [<>:"/\\|?*\x00]
UnsafeChars == {60, 62, 58, DQUOTE, SLASH, BACKSLASH, 124, 63, 42, NUL}

\* Longest base name kept by clean_filename
MaxBaseLen == 200

\* Default max_length of validate_filename
MaxFilenameLen == 255

\* Ensure extension starts with a dot
NormalizeExt(ext) ==
    IF ext # << >> /\ ext[1] # DOT THEN <<DOT>> \o ext ELSE ext

\* Security: Limit filename length (max 200 chars before extension)
Truncate(s) ==
    IF Len(s) > MaxBaseLen THEN RStrip(Prefix(s, MaxBaseLen), {UNDERSCORE, DOT}) ELSE s

\* The chain of substitutions clean_filename applies to the base name
CleanBase(name) ==
    LET noControl == RemoveChars(name, ControlChars)
        noUnsafe == RemoveChars(noControl, UnsafeChars)
        underscored == ReplaceChar(noUnsafe, SPACE, UNDERSCORE)
        collapsed == CollapseUnderscores(underscored)
        stripped == Strip(collapsed, {UNDERSCORE, DOT})
    IN  Truncate(stripped)

clean_filename(original_filename, replacement_ext) ==
    IF original_filename = << >> THEN DocumentStr \o replacement_ext
    ELSE LET filename_only == basename(original_filename)
             name_without_ext == splitext(filename_only)[1]
             cleaned == CleanBase(name_without_ext)
         IN  IF name_without_ext = << >> THEN DocumentStr \o replacement_ext
             ELSE IF cleaned = << >> THEN DocumentStr \o replacement_ext
             ELSE cleaned \o NormalizeExt(replacement_ext)

\* CON, PRN, AUX, NUL, COM1-9, LPT1-9
ReservedNames ==
    {<<67, 79, 78>>, <<80, 82, 78>>, <<65, 85, 88>>, <<78, 85, 76>>}
    \cup {<<67, 79, 77, d>> : d \in 49..57}
    \cup {<<76, 80, 84, d>> : d \in 49..57}

\* validate_filename without its check for path traversal
validate_filename_no_traversal(filename) ==
    /\ filename # << >>
    /\ Len(filename) <= MaxFilenameLen
    /\ ~Contains(filename, NUL)
    /\ Upper(splitext(filename)[1]) \notin ReservedNames

validate_filename(filename) ==
    /\ filename # << >>
    /\ Len(filename) <= MaxFilenameLen
    /\ ~Contains(filename, NUL)
    /\ ~ContainsPair(filename, DOT, DOT)
    /\ ~Contains(filename, SLASH)
    /\ ~Contains(filename, BACKSLASH)
    /\ Upper(splitext(filename)[1]) \notin ReservedNames

get_safe_filename(filename, fallback) ==
    LET cleaned == clean_filename(filename, DotMd)
    IN  IF validate_filename(cleaned) THEN cleaned ELSE fallback

(***************************************************************************)
(* The three derivations of the processed-bucket file name                 *)
(***************************************************************************)
\* pathlib: the path's components, without empty and '.' components
RECURSIVE PathParts(_)
PathParts(p) ==
    IF p = << >> THEN << >>
    ELSE LET cut == IF Contains(p, SLASH)
                    THEN CHOOSE i \in 1..Len(p) : p[i] = SLASH /\ \A j \in 1..(i - 1) : p[j] # SLASH
                    ELSE Len(p) + 1
             head == Prefix(p, cut - 1)
             rest == PathParts(Suffix(p, IF cut > Len(p) THEN Len(p) ELSE cut))
         IN  IF head = << >> \/ head = <<DOT>> THEN rest ELSE <<head>> \o rest

\* PurePath.name
PathName(p) ==
    LET parts == PathParts(p) IN IF parts = << >> THEN << >> ELSE parts[Len(parts)]

\* PurePath.stem: the name up to its last dot, unless that dot is first or last
PathStem(p) ==
    LET name == PathName(p)
        i == RFind(name, DOT)
    IN  IF i > 1 /\ i < Len(name) THEN Prefix(name, i - 1) ELSE name

\* str.rsplit('.', 1)[0]
RSplitDot(s) ==
    LET i == RFind(s, DOT) IN IF i > 0 THEN Prefix(s, i - 1) ELSE s

\* ProcessingService._process_with_docling: f"{Path(filename).stem}.md"
ProcessedName(filename) == PathStem(filename) \o DotMd

\* download_document: clean_filename(original_filename, replacement_ext=".md")
DownloadName(filename) == clean_filename(filename, DotMd)

\* get_document_status: f"{filename.rsplit('.', 1)[0]}.md"
StatusName(filename) == RSplitDot(filename) \o DotMd

(***************************************************************************)
(* State                                                                   *)
(***************************************************************************)
VARIABLES
    docs,       \* the documents table: id -> Document Record
    uploads,    \* keys of the "uploads" bucket
    processed,  \* keys of the "processed" bucket
    pending,    \* POST /upload requests between record creation and byte storage
    tasks,      \* background tasks (runs of process_document_async), in scheduling order
    clock,      \* the database's now()
    resp,       \* the last HTTP response sent
    fname,      \* filename utilities: the input filename
    out         \* the results of the pure functions applied (to fname, or to
                \* the status, elapsed time and options out itself records)

vars == <<docs, uploads, processed, pending, tasks, clock, resp, fname, out>>
recordVars == <<docs, uploads, processed, pending, tasks, clock, resp>>
nameVars == <<fname, out>>

\* SQL NULL for a timestamp / a text column
NullTime == << >>
NullText == "null"

\* The ids the store assigns. Every handler and every run touches only the row
\* and the bucket keys of the document id it is given, so the records evolve
\* independently of each other and one id shows every behaviour of a record.
DocIds == {1}
\* ids a client may ask for: the ids of the table and one that is never assigned
RequestIds == DocIds \cup {0}

\* app/core/config.py
MAX_FILE_SIZE == 10485760
PdfType == "application/pdf"
ALLOWED_FILE_TYPES ==
    {PdfType,
     "application/vnd.openxmlformats-officedocument.wordprocessingml.document",
     "application/vnd.openxmlformats-officedocument.presentationml.presentation",
     "application/vnd.openxmlformats-officedocument.spreadsheetml.sheet",
     "text/plain"}

\* Inputs of POST /upload
UploadNames == {<<99, 46, 110>>, <<99, SPACE, 111, 46, 110>>}
UploadModes == {"fast", "Fast"}
UploadOcr == {FALSE}
UploadSizes == {0, MAX_FILE_SIZE, MAX_FILE_SIZE + 1}
UploadTypes == {PdfType, "text/plain", "image/png"}

\* Outcomes of a call into the storage backend
StoreOutcomes == {"ok", "error"}
\* Outcomes of converter.convert under asyncio.wait_for
ConvertOutcomes == {"ok", "corrupted", "error", "timeout"}

\* Outcomes of a storage call awaited inside asyncio.wait_for
AwaitOutcomes == {"ok", "error", "timeout"}

\* An HTTP response: the endpoint, the status code, the document id asked for,
\* the shape of the body ("error": {error: {code, message, timestamp, requestId}},
\* "detail": {detail}, "json": the endpoint's result, "file": a byte stream)
\* and what the body carries
Response(op, code, id, shape, body) ==
    [op |-> op, code |-> code, id |-> id, shape |-> shape, body |-> body]

NoResp == Response("none", 0, 0, "none", "none")

\* The response of the previous request has been sent; a response is handed to
\* the client (Deliver) before the next step of the model
Idle == resp = NoResp

(***************************************************************************)
(* app/services/supabase_service.py                                        *)
(***************************************************************************)
\* SupabaseService.create_document_record: the row inserted
NewRecord(filename, processing_options) ==
    [filename |-> filename,
     status |-> "queued",
     processing_options |-> processing_options,
     completed_at |-> NullTime,
     error_message |-> NullText]

\* SupabaseService.update_document_status: the row after the update
UpdatedRecord(rec, status, error_message, now) ==
    [rec EXCEPT !.status = status,
                !.completed_at = IF status = "complete" THEN <<now>> ELSE @,
                !.error_message = IF error_message # NullText THEN error_message ELSE @]

\* The clock after an update: now() is read when completed_at is written
ClockAfter(status, now) == IF status = "complete" THEN now + 1 ELSE now

(***************************************************************************)
(* app/main.py: exception handlers                                         *)
(***************************************************************************)
\* document_processing_exception_handler: every DocumentProcessingError is
\* answered with status_code=400 and the structured error body
DocumentProcessingErrorResponse(op, id, code) == Response(op, 400, id, "error", code)

\* fastapi's handler of HTTPException: {"detail": ...}
HTTPExceptionResponse(op, id, status_code) == Response(op, status_code, id, "detail", "detail")

(***************************************************************************)
(* app/api/endpoints/upload.py                                             *)
(***************************************************************************)
\* The checks of upload_document with the size checked before the mode
UploadValidationSizeFirst(processing_mode, size, content_type) ==
    IF size > MAX_FILE_SIZE THEN "FILE_TOO_LARGE"
    ELSE IF processing_mode \notin {"fast", "quality"} THEN "INVALID_MODE"
    ELSE IF content_type \notin ALLOWED_FILE_TYPES THEN "UNSUPPORTED_FORMAT"
    ELSE "ok"

\* The checks upload_document makes before it touches the store
UploadValidation(processing_mode, size, content_type) ==
    IF processing_mode \notin {"fast", "quality"} THEN "INVALID_MODE"
    ELSE IF size > MAX_FILE_SIZE THEN "FILE_TOO_LARGE"
    ELSE IF content_type \notin ALLOWED_FILE_TYPES THEN "UNSUPPORTED_FORMAT"
    ELSE "ok"

\* upload_document: the processing_options stored with the record
StoredOptions(ocr_enabled, processing_mode) ==
    [ocr_enabled |-> ocr_enabled, processing_mode |-> processing_mode]

NewTask(id, filename, via) ==
    [doc |-> id, filename |-> filename, via |-> via, pc |-> "scheduled",
     temp |-> FALSE, exc |-> "none"]

\* upload_document, a request the validation rejects
UploadRejected(processing_mode, size, content_type) ==
    LET verdict == UploadValidation(processing_mode, size, content_type)
    IN  /\ Idle
        /\ verdict # "ok"
        /\ resp' = IF verdict = "INVALID_MODE"
                   THEN HTTPExceptionResponse("upload", 0, 400)
                   ELSE DocumentProcessingErrorResponse("upload", 0, verdict)
        /\ UNCHANGED <<docs, uploads, processed, pending, tasks, clock>>
        /\ UNCHANGED nameVars

\* upload_document up to create_document_record
UploadCreate(filename, processing_mode, ocr_enabled, size, content_type, outcome) ==
    LET id == Cardinality(DOMAIN docs) + 1
        processing_options == StoredOptions(ocr_enabled, processing_mode)
    IN  /\ Idle
        /\ UploadValidation(processing_mode, size, content_type) = "ok"
        /\ id \in DocIds
        /\ IF outcome = "ok"
           THEN /\ docs' = [d \in DOMAIN docs \cup {id} |->
                               IF d = id THEN NewRecord(filename, processing_options) ELSE docs[d]]
                /\ pending' = pending \cup {id}
                /\ UNCHANGED resp
           ELSE /\ resp' = DocumentProcessingErrorResponse("upload", 0, "STORAGE_ERROR")
                /\ UNCHANGED <<docs, pending>>
        /\ UNCHANGED <<uploads, processed, tasks, clock>>
        /\ UNCHANGED nameVars

\* upload_document answering without scheduling the background task
UploadStoreUnscheduled(id, outcome) ==
    /\ Idle
    /\ id \in pending
    /\ pending' = pending \ {id}
    /\ IF outcome = "ok"
       THEN /\ uploads' = uploads \cup {<<id, docs[id].filename>>}
            /\ resp' = Response("upload", 200, id, "json",
                                 [filename |-> docs[id].filename, status |-> "queued"])
            /\ UNCHANGED tasks
       ELSE /\ resp' = DocumentProcessingErrorResponse("upload", 0, "STORAGE_ERROR")
            /\ UNCHANGED <<uploads, tasks>>
    /\ UNCHANGED <<docs, processed, clock>>
    /\ UNCHANGED nameVars

\* upload_document from upload_file to the response
UploadStore(id, outcome) ==
    /\ Idle
    /\ id \in pending
    /\ pending' = pending \ {id}
    /\ IF outcome = "ok"
       THEN /\ uploads' = uploads \cup {<<id, docs[id].filename>>}
            /\ tasks' = Append(tasks, NewTask(id, docs[id].filename, "upload"))
            /\ resp' = Response("upload", 200, id, "json",
                                 [filename |-> docs[id].filename, status |-> "queued"])
       ELSE /\ resp' = DocumentProcessingErrorResponse("upload", 0, "STORAGE_ERROR")
            /\ UNCHANGED <<uploads, tasks>>
    /\ UNCHANGED <<docs, processed, clock>>
    /\ UNCHANGED nameVars

(***************************************************************************)
(* app/api/endpoints/process.py                                            *)
(***************************************************************************)
NumProcessCalls == Cardinality({i \in 1..Len(tasks) : tasks[i].via = "process"})

\* process_document (POST /process/{document_id})
ProcessRequest(id, outcome) ==
    /\ Idle
    /\ IF outcome # "ok"
       THEN /\ resp' = HTTPExceptionResponse("process", id, 500)
            /\ UNCHANGED tasks
       ELSE IF id \notin DOMAIN docs
       THEN /\ resp' = HTTPExceptionResponse("process", id, 404)
            /\ UNCHANGED tasks
       ELSE IF docs[id].status # "queued"
       THEN /\ resp' = HTTPExceptionResponse("process", id, 400)
            /\ UNCHANGED tasks
       ELSE /\ NumProcessCalls < MaxProcessCalls
            /\ tasks' = Append(tasks, NewTask(id, docs[id].filename, "process"))
            /\ resp' = Response("process", 200, id, "json", "processing")
    /\ UNCHANGED <<docs, uploads, processed, pending, clock>>
    /\ UNCHANGED nameVars

(***************************************************************************)
(* app/services/processing_service.py                                      *)
(***************************************************************************)
\* A run is active from its first statement to the return or raise of
\* process_document
Active(t) == t.pc \notin {"scheduled", "done"}

\* The store's write of a status on behalf of a run
WriteStatus(id, status, error_message) ==
    /\ docs' = [docs EXCEPT ![id] = UpdatedRecord(@, status, error_message, clock)]
    /\ clock' = ClockAfter(status, clock)

SetTask(i, pc, temp, exc) ==
    tasks' = [tasks EXCEPT ![i] = [@ EXCEPT !.pc = pc, !.temp = temp, !.exc = exc]]

\* process_document: update_document_status(document_id, 'processing')
RunStart(i, outcome) ==
    /\ Idle
    /\ tasks[i].pc = "scheduled"
    /\ IF outcome = "ok"
       THEN /\ WriteStatus(tasks[i].doc, "processing", NullText)
            /\ SetTask(i, "download", FALSE, "none")
       ELSE /\ SetTask(i, "handler", FALSE, "none")
            /\ UNCHANGED <<docs, clock>>
    /\ UNCHANGED <<uploads, processed, pending, resp>>
    /\ UNCHANGED nameVars

\* process_document: download_file("uploads", f"{document_id}/{filename}"), then
\* (without suspending) NamedTemporaryFile(delete=False) and temp_file.write;
\* a failed write leaves the file behind and reaches the outer handler
RunDownload(i, outcome) ==
    /\ Idle
    /\ tasks[i].pc = "download"
    /\ IF outcome = "error" \/ <<tasks[i].doc, tasks[i].filename>> \notin uploads
       THEN SetTask(i, "handler", FALSE, "none")
       ELSE IF outcome = "write_error"
       THEN SetTask(i, "handler", TRUE, "none")
       ELSE SetTask(i, "convert", TRUE, "none")
    /\ UNCHANGED <<docs, uploads, processed, pending, clock, resp>>
    /\ UNCHANGED nameVars

\* _process_with_docling: converter.convert and the classification of its
\* errors, under asyncio.wait_for; the finally clause unlinks the temp file
RunConvert(i, outcome) ==
    /\ Idle
    /\ tasks[i].pc = "convert"
    /\ CASE outcome = "ok" -> SetTask(i, "upload_md", TRUE, "none")
         [] outcome = "corrupted" -> SetTask(i, "done", FALSE, "CorruptedFileError")
         [] outcome = "error" -> SetTask(i, "handler", FALSE, "none")
         [] outcome = "timeout" -> SetTask(i, "timeout_write", TRUE, "none")
    /\ UNCHANGED <<docs, uploads, processed, pending, clock, resp>>
    /\ UNCHANGED nameVars

\* _process_with_docling going on to the 'complete' write after a failed
\* upload of the markdown
RunUploadMarkdownIgnoringFailure(i, outcome) ==
    /\ Idle
    /\ tasks[i].pc = "upload_md"
    /\ CASE outcome = "ok" ->
              /\ processed' = processed \cup {<<tasks[i].doc, ProcessedName(tasks[i].filename)>>}
              /\ SetTask(i, "set_complete", TRUE, "none")
         [] outcome = "error" ->
              /\ SetTask(i, "set_complete", TRUE, "none")
              /\ UNCHANGED processed
         [] outcome = "timeout" ->
              /\ SetTask(i, "timeout_write", TRUE, "none")
              /\ UNCHANGED processed
    /\ UNCHANGED <<docs, uploads, pending, clock, resp>>
    /\ UNCHANGED nameVars

\* _process_with_docling: upload_file(bucket="processed", ...)
RunUploadMarkdown(i, outcome) ==
    /\ Idle
    /\ tasks[i].pc = "upload_md"
    /\ CASE outcome = "ok" ->
              /\ processed' = processed \cup {<<tasks[i].doc, ProcessedName(tasks[i].filename)>>}
              /\ SetTask(i, "set_complete", TRUE, "none")
         [] outcome = "error" ->
              /\ SetTask(i, "handler", FALSE, "none")
              /\ UNCHANGED processed
         [] outcome = "timeout" ->
              /\ SetTask(i, "timeout_write", TRUE, "none")
              /\ UNCHANGED processed
    /\ UNCHANGED <<docs, uploads, pending, clock, resp>>
    /\ UNCHANGED nameVars

\* _process_with_docling: update_document_status(document_id, 'complete')
RunSetComplete(i, outcome) ==
    /\ Idle
    /\ tasks[i].pc = "set_complete"
    /\ CASE outcome = "ok" ->
              /\ WriteStatus(tasks[i].doc, "complete", NullText)
              /\ SetTask(i, "done", FALSE, "none")
         [] outcome = "error" ->
              /\ SetTask(i, "handler", FALSE, "none")
              /\ UNCHANGED <<docs, clock>>
         [] outcome = "timeout" ->
              /\ SetTask(i, "timeout_write", TRUE, "none")
              /\ UNCHANGED <<docs, clock>>
    /\ UNCHANGED <<uploads, processed, pending, resp>>
    /\ UNCHANGED nameVars

\* process_document, except asyncio.TimeoutError:
\* update_document_status(document_id, 'failed', 'Processing timeout')
RunTimeout(i, outcome) ==
    /\ Idle
    /\ tasks[i].pc = "timeout_write"
    /\ IF outcome = "ok"
       THEN /\ WriteStatus(tasks[i].doc, "failed", "Processing timeout")
            /\ SetTask(i, "done", FALSE, "ProcessingTimeoutError")
       ELSE /\ SetTask(i, "handler", FALSE, "none")
            /\ UNCHANGED <<docs, clock>>
    /\ UNCHANGED <<uploads, processed, pending, resp>>
    /\ UNCHANGED nameVars

\* process_document, except Exception:
\* update_document_status(document_id, 'failed', f"Processing failed: {e}")
RunHandler(i, outcome) ==
    /\ Idle
    /\ tasks[i].pc = "handler"
    /\ IF outcome = "ok"
       THEN /\ WriteStatus(tasks[i].doc, "failed", "Processing failed")
            /\ SetTask(i, "done", tasks[i].temp, "DoclingProcessingError")
       ELSE /\ SetTask(i, "done", tasks[i].temp, "Exception")
            /\ UNCHANGED <<docs, clock>>
    /\ UNCHANGED <<uploads, processed, pending, resp>>
    /\ UNCHANGED nameVars

\* The exceptions process_document ends with; all of them are subclasses of
\* Exception
ProcessDocumentExceptions ==
    {"ProcessingTimeoutError", "CorruptedFileError", "DoclingProcessingError", "Exception"}

\* process_document_async: what the background task ends with for a run of
\* process_document that has ended; 'except Exception' logs and swallows
process_document_async(t) ==
    IF t.exc = "none" \/ t.exc \in ProcessDocumentExceptions THEN "returned" ELSE "raised"

(***************************************************************************)
(* app/api/endpoints/status.py                                             *)
(***************************************************************************)
\* Python's None for elapsed_time; an elapsed time of e seconds is <<e>>
NoElapsed == << >>

\* elapsed_time or 0
ElapsedOrZero(elapsed_time) == IF elapsed_time = NoElapsed THEN 0 ELSE elapsed_time[1]

\* dict.get(key, default)
Get(d, key, default) == IF key \in DOMAIN d THEN d[key] ELSE default

\* {}
EmptyDict == [k \in {} |-> FALSE]

Min(a, b) == IF a <= b THEN a ELSE b

\* int(x) for the rational x = num / den with den > 0: truncation towards zero
IntOfRatio(num, den) == IF num >= 0 THEN num \div den ELSE -((-num) \div den)

\* _calculate_progress: estimated_total = base_time * ocr_multiplier
EstimatedTotal(processing_options) ==
    LET base_time == IF Get(processing_options, "mode", "None") = "fast" THEN 30 ELSE 90
        ocr_enabled == Get(processing_options, "ocr_enabled", FALSE)
        ocr_multiplier == IF ocr_enabled THEN 2 ELSE 1
    IN  base_time * ocr_multiplier

\* _calculate_progress returning the queued elapsed time as it is
_calculate_progress_unclamped(status, elapsed_time, processing_options) ==
    CASE status = "complete" -> 100
      [] status = "failed" -> 0
      [] status = "queued" -> ElapsedOrZero(elapsed_time)
      [] status = "processing" ->
            LET estimated_total == EstimatedTotal(processing_options)
                e == ElapsedOrZero(elapsed_time)
            IN  IF e # 0
                THEN Min(IntOfRatio(IF e < estimated_total
                                    THEN 10 * estimated_total + 80 * e
                                    ELSE 90 * estimated_total,
                                    estimated_total), 95)
                ELSE 10
      [] OTHER -> 0

\* _calculate_progress without the bound of 80 on the time's share and
\* without the cap at 95
_calculate_progress_uncapped(status, elapsed_time, processing_options) ==
    CASE status = "complete" -> 100
      [] status = "failed" -> 0
      [] status = "queued" -> Min(ElapsedOrZero(elapsed_time), 10)
      [] status = "processing" ->
            LET estimated_total == EstimatedTotal(processing_options)
                e == ElapsedOrZero(elapsed_time)
            IN  IF e # 0
                THEN IntOfRatio(10 * estimated_total + 80 * e, estimated_total)
                ELSE 10
      [] OTHER -> 0

\* _calculate_progress without the 10 a processing record starts from
_calculate_progress_without_base(status, elapsed_time, processing_options) ==
    CASE status = "complete" -> 100
      [] status = "failed" -> 0
      [] status = "queued" -> Min(ElapsedOrZero(elapsed_time), 10)
      [] status = "processing" ->
            LET estimated_total == EstimatedTotal(processing_options)
                e == ElapsedOrZero(elapsed_time)
            IN  IF e # 0
                THEN Min(IntOfRatio(IF e < estimated_total THEN 80 * e ELSE 80 * estimated_total,
                                    estimated_total), 95)
                ELSE 0
      [] OTHER -> 0

\* _calculate_progress. (elapsed_time / estimated_total) * 80 is the rational
\* 80 * e / estimated_total, so int(10 + min(that, 80)) is the truncation of
\* (10 * estimated_total + 80 * e) / estimated_total while e < estimated_total
\* and 90 from there on.
_calculate_progress(status, elapsed_time, processing_options) ==
    CASE status = "complete" -> 100
      [] status = "failed" -> 0
      [] status = "queued" -> Min(ElapsedOrZero(elapsed_time), 10)
      [] status = "processing" ->
            LET estimated_total == EstimatedTotal(processing_options)
                e == ElapsedOrZero(elapsed_time)
            IN  IF e # 0
                THEN Min(IntOfRatio(IF e < estimated_total
                                    THEN 10 * estimated_total + 80 * e
                                    ELSE 90 * estimated_total,
                                    estimated_total), 95)
                ELSE 10
      [] OTHER -> 0

\* _get_progress_stage reporting 'Finalizing...' from 100 s on
_get_progress_stage_from_100(status, elapsed_time) ==
    IF status = "queued" /\ ElapsedOrZero(elapsed_time) < 5 THEN "Uploading file..."
    ELSE IF status = "processing" /\ ElapsedOrZero(elapsed_time) >= 100 THEN "Finalizing..."
    ELSE CASE status = "queued" -> "Queued for processing"
           [] status = "processing" -> "Converting document"
           [] status = "complete" -> "Processing complete"
           [] status = "failed" -> "Processing failed"
           [] OTHER -> "Unknown"

\* _get_progress_stage
_get_progress_stage(status, elapsed_time) ==
    IF status = "queued" /\ ElapsedOrZero(elapsed_time) < 5 THEN "Uploading file..."
    ELSE IF status = "processing" /\ ElapsedOrZero(elapsed_time) > 100 THEN "Finalizing..."
    ELSE CASE status = "queued" -> "Queued for processing"
           [] status = "processing" -> "Converting document"
           [] status = "complete" -> "Processing complete"
           [] status = "failed" -> "Processing failed"
           [] OTHER -> "Unknown"

\* Seconds between created_at and the server's clock when a status request is
\* handled: the two clocks are different machines' clocks, so the difference
\* may be negative
StatusElapsed == {<<-5>>, <<15>>}

\* get_document_status that notes the poll in the record it reads
StatusRequestNoting(id, outcome, signed, elapsed_time) ==
    /\ Idle
    /\ resp' = IF outcome # "ok" THEN HTTPExceptionResponse("status", id, 500)
               ELSE IF id \notin DOMAIN docs THEN HTTPExceptionResponse("status", id, 404)
               ELSE Response("status", 200, id, "json", [status |-> docs[id].status])
    /\ docs' = IF outcome = "ok" /\ id \in DOMAIN docs
               THEN [docs EXCEPT ![id].error_message = "polled"]
               ELSE docs
    /\ UNCHANGED <<uploads, processed, pending, tasks, clock>>
    /\ UNCHANGED nameVars

\* get_document_status (GET /status/{document_id}); signed is the outcome of
\* get_file_url, whose failure leaves download_url empty
StatusRequest(id, outcome, signed, elapsed_time) ==
    /\ Idle
    /\ resp' = IF outcome # "ok" THEN HTTPExceptionResponse("status", id, 500)
               ELSE IF id \notin DOMAIN docs THEN HTTPExceptionResponse("status", id, 404)
               ELSE Response("status", 200, id, "json",
                             [status |-> docs[id].status,
                              elapsed_time |-> elapsed_time,
                              progress |-> _calculate_progress(docs[id].status, elapsed_time,
                                                              docs[id].processing_options),
                              progress_stage |-> _get_progress_stage(docs[id].status, elapsed_time),
                              download_url |-> IF docs[id].status = "complete" /\ signed = "ok"
                                               THEN <<id, StatusName(docs[id].filename)>>
                                               ELSE << >>])
    /\ UNCHANGED <<docs, uploads, processed, pending, tasks, clock>>
    /\ UNCHANGED nameVars

(***************************************************************************)
(* app/api/endpoints/download.py                                           *)
(***************************************************************************)
\* download_document refusing only failed records instead of every record that
\* is not complete
DownloadResponseUnlessFailed(id, read, fetched) ==
    IF read # "ok" THEN HTTPExceptionResponse("download", id, 500)
    ELSE IF id \notin DOMAIN docs THEN HTTPExceptionResponse("download", id, 404)
    ELSE IF docs[id].status = "failed" THEN HTTPExceptionResponse("download", id, 400)
    ELSE IF fetched # "ok" \/ <<id, DownloadName(docs[id].filename)>> \notin processed
    THEN HTTPExceptionResponse("download", id, 500)
    ELSE Response("download", 200, id, "file",
                  [key |-> <<id, DownloadName(docs[id].filename)>>,
                   filename |-> get_safe_filename(docs[id].filename, DocumentMd)])

\* The response of download_document; read is the outcome of get_document and
\* fetched the outcome of download_file
DownloadResponse(id, read, fetched) ==
    IF read # "ok" THEN HTTPExceptionResponse("download", id, 500)
    ELSE IF id \notin DOMAIN docs THEN HTTPExceptionResponse("download", id, 404)
    ELSE IF docs[id].status # "complete" THEN HTTPExceptionResponse("download", id, 400)
    ELSE IF fetched # "ok" \/ <<id, DownloadName(docs[id].filename)>> \notin processed
    THEN HTTPExceptionResponse("download", id, 500)
    ELSE Response("download", 200, id, "file",
                  [key |-> <<id, DownloadName(docs[id].filename)>>,
                   filename |-> get_safe_filename(docs[id].filename, DocumentMd)])

\* download_document (GET /download/{document_id})
DownloadRequest(id, read, fetched) ==
    /\ Idle
    /\ resp' = DownloadResponse(id, read, fetched)
    /\ UNCHANGED <<docs, uploads, processed, pending, tasks, clock>>
    /\ UNCHANGED nameVars

(***************************************************************************)
(* The Document Record state machine                                       *)
(***************************************************************************)
NoOut == [fn |-> "none"]

Init ==
    /\ docs = << >>
    /\ uploads = {}
    /\ processed = {}
    /\ pending = {}
    /\ tasks = << >>
    /\ clock = 1
    /\ resp = NoResp
    /\ fname = << >>
    /\ out = NoOut

Upload ==
    \/ \E m \in UploadModes, sz \in UploadSizes, ct \in UploadTypes : UploadRejected(m, sz, ct)
    \/ \E fn \in UploadNames, m \in UploadModes, ocr \in UploadOcr, sz \in UploadSizes,
          ct \in UploadTypes, o \in StoreOutcomes : UploadCreate(fn, m, ocr, sz, ct, o)
    \/ \E id \in DocIds, o \in StoreOutcomes : UploadStore(id, o)

Process == \E id \in RequestIds, o \in StoreOutcomes : ProcessRequest(id, o)

Status ==
    \E id \in RequestIds, o \in StoreOutcomes, signed \in StoreOutcomes, e \in StatusElapsed :
        StatusRequest(id, o, signed, e)

Download == \E id \in RequestIds, r \in StoreOutcomes, f \in StoreOutcomes : DownloadRequest(id, r, f)

Run ==
    \E i \in 1..Len(tasks) :
        \/ \E o \in StoreOutcomes : RunStart(i, o)
        \/ \E o \in StoreOutcomes \cup {"write_error"} : RunDownload(i, o)
        \/ \E o \in ConvertOutcomes : RunConvert(i, o)
        \/ \E o \in AwaitOutcomes : RunUploadMarkdown(i, o)
        \/ \E o \in AwaitOutcomes : RunSetComplete(i, o)
        \/ \E o \in StoreOutcomes : RunTimeout(i, o)
        \/ \E o \in StoreOutcomes : RunHandler(i, o)

\* The response is sent to the client
Deliver ==
    /\ ~Idle
    /\ resp' = NoResp
    /\ UNCHANGED <<docs, uploads, processed, pending, tasks, clock>>
    /\ UNCHANGED nameVars

Next == Upload \/ Process \/ Status \/ Download \/ Run \/ Deliver

Spec == Init /\ [][Next]_vars

(***************************************************************************)
(* The filename utilities applied to every short filename                  *)
(***************************************************************************)
InitNames ==
    /\ docs = << >>
    /\ uploads = {}
    /\ processed = {}
    /\ pending = {}
    /\ tasks = << >>
    /\ clock = 1
    /\ resp = NoResp
    /\ fname = << >>
    /\ out = NoOut

\* The results of the filename utilities and of the three derivations of the
\* processed-bucket file name for a filename
FilenameResults(name) ==
    [fn |-> "filename_utils",
     clean |-> clean_filename(name, DotMd),
     clean_bare |-> clean_filename(name, Suffix(DotMd, 1)),
     safe |-> get_safe_filename(name, DocumentMd),
     written |-> ProcessedName(name),
     read |-> DownloadName(name),
     signed |-> StatusName(name)]

\* The utilities are applied to one filename
ApplyFilenameUtils ==
    /\ out = NoOut
    /\ \E name \in Names :
           /\ fname' = name
           /\ out' = FilenameResults(name)
    /\ UNCHANGED recordVars

NextNames == ApplyFilenameUtils

SpecNames == InitNames /\ [][NextNames]_vars

(***************************************************************************)
(* The progress estimate applied to every status, elapsed time and options *)
(***************************************************************************)
InitProgress ==
    /\ docs = << >>
    /\ uploads = {}
    /\ processed = {}
    /\ pending = {}
    /\ tasks = << >>
    /\ clock = 1
    /\ resp = NoResp
    /\ fname = << >>
    /\ out = NoOut

\* The status values of a record, and one that is none of them
ProgressStatuses == {"queued", "processing", "complete", "failed", "unknown"}

\* elapsed_time as get_document_status computes it: None, or a number of seconds
ElapsedTimes == {NoElapsed} \cup {<<e>> : e \in (-MaxElapsed)..MaxElapsed}

ProgressResults(status, elapsed_time, processing_options) ==
    [fn |-> "_calculate_progress",
     status |-> status,
     elapsed_time |-> elapsed_time,
     processing_options |-> processing_options,
     progress |-> _calculate_progress(status, elapsed_time, processing_options),
     progress_stage |-> _get_progress_stage(status, elapsed_time)]

\* The estimate is computed for one status and one elapsed time
ApplyProgress(processing_options) ==
    /\ out = NoOut
    /\ \E status \in ProgressStatuses, elapsed_time \in ElapsedTimes :
           out' = ProgressResults(status, elapsed_time, processing_options)
    /\ UNCHANGED fname
    /\ UNCHANGED recordVars

\* The options of a record POST /upload created
ApplyProgressStored ==
    \E ocr \in BOOLEAN, mode \in {"fast", "quality"} : ApplyProgress(StoredOptions(ocr, mode))

\* Options that name the mode 'mode'
ApplyProgressMode ==
    \E ocr \in BOOLEAN, mode \in {"fast", "quality"} :
        ApplyProgress([mode |-> mode, ocr_enabled |-> ocr])

\* No options
ApplyProgressEmpty == ApplyProgress(EmptyDict)

NextProgress == ApplyProgressStored \/ ApplyProgressMode \/ ApplyProgressEmpty

SpecProgress == InitProgress /\ [][NextProgress]_vars

(***************************************************************************)
(* Properties of the Document Record                                       *)
(***************************************************************************)
\* Position of a status in the order queued -> processing -> {complete | failed}
Rank(status) ==
    CASE status = "queued" -> 0
      [] status = "processing" -> 1
      [] status \in {"complete", "failed"} -> 2

Terminal(status) == status \in {"complete", "failed"}

RunsOf(d) == {i \in 1..Len(tasks) : tasks[i].doc = d}

\* C1: every change of a record's status moves it forward in the order
\* queued -> processing -> {complete | failed}, and a record whose status is
\* complete or failed keeps that status.
StatusMovesForward ==
    [][\A d \in DOMAIN docs :
          docs'[d].status # docs[d].status
              => /\ ~Terminal(docs[d].status)
                 /\ Rank(docs[d].status) < Rank(docs'[d].status)]_vars

\* C2: no two runs of process_document on the same record are active at the
\* same time.
AtMostOneActiveRun ==
    \A i, j \in 1..Len(tasks) :
        (i # j /\ tasks[i].doc = tasks[j].doc /\ Active(tasks[i])) => ~Active(tasks[j])

\* C3: when the only run of a record has ended because the conversion call
\* timed out (ProcessingTimeoutError) or was classified as a corrupted file
\* (CorruptedFileError), the record has status failed and an error_message.
ConversionFailureEndsFailed ==
    \A i \in 1..Len(tasks) :
        (/\ tasks[i].pc = "done"
         /\ tasks[i].exc \in {"ProcessingTimeoutError", "CorruptedFileError"}
         /\ RunsOf(tasks[i].doc) = {i})
            => /\ docs[tasks[i].doc].status = "failed"
               /\ docs[tasks[i].doc].error_message # NullText

\* C5: error_message is non-null exactly when status is failed.
ErrorMessageIffFailed ==
    \A d \in DOMAIN docs : (docs[d].error_message # NullText) <=> (docs[d].status = "failed")

\* C6: a record whose status is complete or failed has a completed_at.
TerminalHasCompletedAt ==
    \A d \in DOMAIN docs : Terminal(docs[d].status) => docs[d].completed_at # NullTime

\* C7: completed_at is null while status is queued or processing, and once set
\* it is never written again.
CompletedAtNullThenImmutable ==
    [][\A d \in DOMAIN docs' :
          /\ docs'[d].status \in {"queued", "processing"} => docs'[d].completed_at = NullTime
          /\ (d \in DOMAIN docs /\ docs[d].completed_at # NullTime)
                 => docs'[d].completed_at = docs[d].completed_at]_vars

\* C8: GET /download/{id} answers 404 for an unknown id, 400 for a record that
\* is queued, processing or failed, 500 when the read of the blob fails, and
\* the stored markdown only for a complete record whose blob is in the
\* processed bucket; the step that sends a download response changes neither
\* the records nor the buckets.
DownloadAnswers ==
    [][/\ \A id \in RequestIds, fetched \in StoreOutcomes :
             DownloadRequest(id, "ok", fetched)
                 => /\ id \notin DOMAIN docs => resp'.code = 404
                    /\ (id \in DOMAIN docs /\ docs[id].status \in {"queued", "processing", "failed"})
                           => resp'.code = 400
                    /\ (id \in DOMAIN docs /\ docs[id].status = "complete" /\ fetched # "ok")
                           => resp'.code = 500
       /\ (resp'.op = "download" /\ resp' # resp)
             => /\ UNCHANGED <<docs, uploads, processed, pending, tasks>>
                /\ resp'.code \in {200, 400, 404, 500}
                /\ resp'.code = 200
                       => /\ resp'.id \in DOMAIN docs
                          /\ docs[resp'.id].status = "complete"
                          /\ resp'.shape = "file"
                          /\ resp'.body.key \in processed]_vars

\* A complete record's markdown has been served
DownloadServed == resp.op = "download" /\ resp.code = 200

\* C21: a background task never ends with an exception, and a run of
\* process_document that failed (timeout, corrupted file, conversion or
\* storage error) and could write the status has left the record in status
\* failed with an error_message.
BackgroundFailureIsRecorded ==
    \A i \in 1..Len(tasks) :
        (tasks[i].pc = "done" /\ tasks[i].exc # "none")
            => /\ process_document_async(tasks[i]) = "returned"
               /\ (tasks[i].exc # "Exception" /\ RunsOf(tasks[i].doc) = {i})
                      => /\ docs[tasks[i].doc].status = "failed"
                         /\ docs[tasks[i].doc].error_message # NullText

\* C22: no run ends leaving its record in status processing: when the only
\* run of a record has ended and its last status write succeeded, the record
\* is complete or failed.
RunEndsInTerminalStatus ==
    \A i \in 1..Len(tasks) :
        (tasks[i].pc = "done" /\ tasks[i].exc # "Exception" /\ RunsOf(tasks[i].doc) = {i})
            => Terminal(docs[tasks[i].doc].status)

\* C23: once POST /upload has finished, every record has its raw bytes in the
\* uploads bucket under {id}/{filename}.
RecordHasRawBytes ==
    \A d \in DOMAIN docs : d \notin pending => <<d, docs[d].filename>> \in uploads

\* C24: a record in status complete has a markdown blob in the processed
\* bucket, and the step that writes status complete is taken by a run whose
\* upload of the markdown has succeeded.
CompleteHasMarkdown ==
    /\ [](\A d \in DOMAIN docs :
             docs[d].status = "complete" => \E key \in processed : key[1] = d)
    /\ [][\A d \in DOMAIN docs :
             (docs'[d].status = "complete" /\ docs'[d] # docs[d])
                 => \E i \in 1..Len(tasks) :
                        /\ tasks[i].doc = d
                        /\ tasks[i].pc = "set_complete"
                        /\ tasks'[i].pc = "done"
                        /\ <<d, ProcessedName(tasks[i].filename)>> \in processed]_vars

\* A record is complete and its markdown is in the processed bucket
CompletedWithMarkdown ==
    \E d \in DOMAIN docs :
        docs[d].status = "complete" /\ <<d, ProcessedName(docs[d].filename)>> \in processed

\* C30: when a run of process_document has ended, the temporary file it
\* created has been deleted.
TempFileDeleted ==
    \A i \in 1..Len(tasks) : tasks[i].pc = "done" => ~tasks[i].temp

\* C26: a POST /upload that is refused (processing_mode other than 'fast' and
\* 'quality', 'Fast' included; more than 10485760 bytes; a content type that
\* is not allowed) creates no record, stores no bytes and schedules no run,
\* and the checks are made in the order mode, size, type.
RejectedUploadLeavesNoTrace ==
    [][/\ (\/ DOMAIN docs' # DOMAIN docs
           \/ (resp'.op = "upload" /\ resp'.shape = "error" /\ resp'.body = "STORAGE_ERROR"))
             => \A m \in UploadModes, sz \in UploadSizes, ct \in UploadTypes :
                    (m \notin {"fast", "quality"} \/ sz > 10485760 \/ ct \notin ALLOWED_FILE_TYPES)
                        => \A fn \in UploadNames, ocr \in UploadOcr, o \in StoreOutcomes :
                               ~UploadCreate(fn, m, ocr, sz, ct, o)
       /\ (resp'.op = "upload" /\ resp'.code = 400)
             => \A m \in UploadModes, sz \in UploadSizes, ct \in UploadTypes :
                    LET bad_mode == m \notin {"fast", "quality"}
                        too_large == sz > 10485760
                        bad_type == ct \notin ALLOWED_FILE_TYPES
                    IN  UploadRejected(m, sz, ct)
                            => /\ UNCHANGED <<docs, uploads, processed, pending, tasks>>
                               /\ bad_mode => resp'.shape = "detail"
                               /\ (~bad_mode /\ too_large)
                                      => (resp'.shape = "error" /\ resp'.body = "FILE_TOO_LARGE")
                               /\ (~bad_mode /\ ~too_large /\ bad_type)
                                      => (resp'.shape = "error"
                                          /\ resp'.body = "UNSUPPORTED_FORMAT")]_vars

\* An upload with processing_mode 'Fast' has been refused and nothing exists
UploadRefusedForMode ==
    /\ resp.op = "upload"
    /\ resp.code = 400
    /\ resp.shape = "detail"
    /\ docs = << >>
    /\ uploads = {}
    /\ tasks = << >>

(***************************************************************************)
(* Properties of the filename utilities                                    *)
(***************************************************************************)
Applied == out.fn = "filename_utils"

\* A filename of letters, spaces and dots that starts with a letter
PlainName(name) ==
    /\ name # << >>
    /\ name[1] \in 97..122
    /\ \A k \in 1..Len(name) : name[k] \in (97..122) \cup {SPACE, DOT}

\* C4: the file name under which the orchestrator writes the markdown, the one
\* the download handler reads and the one the status handler signs are the
\* same for every filename, in particular for one made of letters, spaces
\* and dots.
StorageKeysAgree ==
    (Applied /\ PlainName(fname)) => (out.written = out.read /\ out.read = out.signed)

\* C9: clean_filename's result contains no '/', no '\', no control character
\* and no '..'.
CleanFilenameIsTraversalSafe ==
    Applied => /\ ~Contains(out.clean, SLASH)
               /\ ~Contains(out.clean, BACKSLASH)
               /\ \A k \in 1..Len(out.clean) : out.clean[k] \notin ControlChars
               /\ ~ContainsPair(out.clean, DOT, DOT)

\* s.endswith(suffix)
EndsWith(s, suffix) ==
    Len(s) >= Len(suffix) /\ Suffix(s, Len(s) - Len(suffix)) = suffix

\* C29: for every filename, clean_filename's result ends with the extension
\* normalized to start with '.', whether replacement_ext is given as '.md' or
\* as 'md', the fallback name 'document' included.
CleanFilenameEndsWithDotExt ==
    Applied => /\ EndsWith(out.clean, DotMd)
               /\ EndsWith(out.clean_bare, DotMd)

\* C10: the Content-Disposition filename get_safe_filename(filename) is
\* clean_filename(filename) when that passes validate_filename and
\* 'document.md' otherwise; it contains no '/', '\', '..', null byte or double
\* quote and its base name is not a reserved device name.
SafeFilenameIsSafe ==
    Applied => /\ validate_filename(out.clean) => out.safe = out.clean
               /\ ~validate_filename(out.clean) => out.safe = DocumentMd
               /\ ~Contains(out.safe, SLASH)
               /\ ~Contains(out.safe, BACKSLASH)
               /\ ~ContainsPair(out.safe, DOT, DOT)
               /\ ~Contains(out.safe, NUL)
               /\ ~Contains(out.safe, DQUOTE)
               /\ Upper(splitext(out.safe)[1]) \notin ReservedNames

\* The fallback was used because the cleaned name did not validate
SafeFilenameFellBack ==
    Applied /\ out.safe = DocumentMd /\ out.clean # DocumentMd

(***************************************************************************)
(* Properties of the progress estimate                                     *)
(***************************************************************************)
ProgressApplied == out.fn = "_calculate_progress"

\* C11: for a processing record with the options POST /upload stores, the
\* estimated total is 30 s for processing_mode fast and 90 s for quality,
\* doubled with OCR: fast without OCR at 15 s and quality with OCR at 90 s
\* both report a percent in 45..55.
ProgressFollowsStoredMode ==
    (ProgressApplied /\ out.status = "processing" /\ out.elapsed_time \in {<<15>>, <<90>>})
        => /\ \A ocr \in BOOLEAN, mode \in {"fast", "quality"} :
                  out.processing_options = StoredOptions(ocr, mode)
                      => EstimatedTotal(out.processing_options)
                             = (IF mode = "fast" THEN 30 ELSE 90) * (IF ocr THEN 2 ELSE 1)
           /\ (out.processing_options = StoredOptions(FALSE, "fast") /\ out.elapsed_time = <<15>>)
                  => out.progress \in 45..55
           /\ (out.processing_options = StoredOptions(TRUE, "quality") /\ out.elapsed_time = <<90>>)
                  => out.progress \in 45..55

\* C12: for status processing and fixed options the percent does not decrease
\* when the elapsed time grows, and it is at most 95 for every elapsed time.
ProgressMonotoneBelow100 ==
    (ProgressApplied /\ out.status = "processing")
        => /\ out.progress <= 95
           /\ out.elapsed_time # NoElapsed
                  => \A t \in out.elapsed_time[1]..MaxElapsed :
                         out.progress <= _calculate_progress("processing", <<t>>, out.processing_options)

\* A processing record polled long after its estimated total reports 90
ProgressAtCeiling ==
    /\ ProgressApplied
    /\ out.status = "processing"
    /\ out.elapsed_time = <<MaxElapsed>>
    /\ out.progress = 90

\* C13: for every status, every options value and every elapsed time, negative
\* ones included, the percent is an integer in 0..100, and in 0..10 for
\* status queued.
ProgressInRange ==
    ProgressApplied => /\ out.progress \in 0..100
                       /\ out.status = "queued" => out.progress \in 0..10

\* C14: the percent is min(elapsed, 10) for status queued (0 at 0 s, 5 at 5 s,
\* 10 at 20 s), 100 for complete and 0 for failed, whatever the elapsed time
\* and the options.
ProgressBoundaries ==
    ProgressApplied
        => /\ out.status = "queued"
                  => /\ out.progress = Min(ElapsedOrZero(out.elapsed_time), 10)
                     /\ out.elapsed_time = <<0>> => out.progress = 0
                     /\ out.elapsed_time = <<5>> => out.progress = 5
                     /\ out.elapsed_time = <<20>> => out.progress = 10
           /\ out.status = "complete" => out.progress = 100
           /\ out.status = "failed" => out.progress = 0

\* A queued record polled after 20 s reports 10
QueuedProgressClamped ==
    /\ ProgressApplied
    /\ out.status = "queued"
    /\ out.elapsed_time = <<20>>
    /\ out.progress = 10

\* The statuses a record polled in status s may be in at a later poll of a
\* successful run
LaterStatuses(s) ==
    CASE s = "queued" -> {"queued", "processing", "complete"}
      [] s = "processing" -> {"processing", "complete"}
      [] s = "complete" -> {"complete"}

\* C25: in a successful run (queued, processing, complete) polled at
\* non-negative elapsed times, a poll never reports less than an earlier
\* poll, across the changes of status too.
PollsNeverDecrease ==
    (/\ ProgressApplied
     /\ out.status \in {"queued", "processing", "complete"}
     /\ out.elapsed_time # NoElapsed
     /\ ElapsedOrZero(out.elapsed_time) >= 0)
        => \A later \in LaterStatuses(out.status), t \in out.elapsed_time[1]..MaxElapsed :
               out.progress <= _calculate_progress(later, <<t>>, out.processing_options)

\* A processing record polled at 10 s, when a queued one has reached its 10
PolledAfterHandover ==
    /\ ProgressApplied
    /\ out.status = "processing"
    /\ out.elapsed_time = <<10>>
    /\ out.progress >= 10

\* C27: without processing_options the estimate is the one for
\* {ocr_enabled: false, processing_mode: 'fast'}, with an estimated total of
\* 30 s, and a missing elapsed time counts as 0.
MissingOptionsDefaultToFast ==
    (ProgressApplied /\ out.processing_options = EmptyDict)
        => /\ out.progress = _calculate_progress(out.status, out.elapsed_time,
                                                 StoredOptions(FALSE, "fast"))
           /\ out.elapsed_time = NoElapsed
                  => out.progress = _calculate_progress(out.status, <<0>>, out.processing_options)
           /\ out.status = "processing" => EstimatedTotal(out.processing_options) = 30

OfficeTypes ==
    {"application/pdf",
     "application/vnd.openxmlformats-officedocument.wordprocessingml.document",
     "application/vnd.openxmlformats-officedocument.presentationml.presentation",
     "application/vnd.openxmlformats-officedocument.spreadsheetml.sheet"}

\* C15: POST /upload of a file whose content type is none of the PDF, DOCX,
\* PPTX and XLSX types (text/plain for one) creates no record and is answered
\* with 400 and the code UNSUPPORTED_FORMAT.
UnsupportedTypeRejected ==
    [][\A fn \in UploadNames, ocr \in UploadOcr, o \in StoreOutcomes,
          ct \in UploadTypes \ OfficeTypes :
          /\ ~UploadCreate(fn, "fast", ocr, MAX_FILE_SIZE, ct, o)
          /\ UploadRejected("fast", MAX_FILE_SIZE, ct)
                 => /\ resp'.code = 400
                    /\ resp'.shape = "error"
                    /\ resp'.body = "UNSUPPORTED_FORMAT"]_vars

\* C16: POST /upload creates a record only for a file of more than 0 and at
\* most 10485760 bytes; a larger file is answered with 400 and the code
\* FILE_TOO_LARGE, an empty file with 400.
UploadSizeWithinLimits ==
    [][\A fn \in UploadNames, ocr \in UploadOcr, o \in StoreOutcomes, sz \in UploadSizes :
          /\ (sz = 0 \/ sz > 10485760) => ~UploadCreate(fn, "fast", ocr, sz, PdfType, o)
          /\ (sz = 0 /\ UploadRejected("fast", sz, PdfType)) => resp'.code = 400
          /\ (sz > 10485760 /\ UploadRejected("fast", sz, PdfType))
                 => /\ resp'.code = 400
                    /\ resp'.shape = "error"
                    /\ resp'.body = "FILE_TOO_LARGE"
          /\ (sz > 0 /\ sz <= 10485760) => ~UploadRejected("fast", sz, PdfType)]_vars

\* C17: a successful POST /upload first creates the record with status
\* queued, then stores the bytes under {id}/{filename} in the uploads bucket,
\* then schedules exactly one background run, and answers
\* {id, filename, status: 'queued'} while that run has not started.
UploadCreatesStoresSchedules ==
    [][/\ \A id \in DocIds :
             (id \notin DOMAIN docs /\ id \in DOMAIN docs')
                 => /\ docs'[id].status = "queued"
                    /\ id \in pending'
                    /\ \A key \in uploads' : key[1] # id
                    /\ \A i \in 1..Len(tasks') : tasks'[i].doc # id
       /\ (Idle /\ resp'.op = "upload" /\ resp'.code = 200)
             => LET id == resp'.id
                IN  /\ id \in DOMAIN docs
                    /\ id \in pending
                    /\ <<id, docs[id].filename>> \notin uploads
                    /\ <<id, docs[id].filename>> \in uploads'
                    /\ tasks' = Append(tasks, NewTask(id, docs[id].filename, "upload"))
                    /\ Cardinality({i \in 1..Len(tasks') :
                                       tasks'[i].doc = id /\ tasks'[i].via = "upload"}) = 1
                    /\ tasks'[Len(tasks')].pc = "scheduled"
                    /\ resp'.shape = "json"
                    /\ resp'.body = [filename |-> docs[id].filename, status |-> "queued"]]_vars

\* POST /upload has answered 200
UploadAnswered == resp.op = "upload" /\ resp.code = 200

\* C18: when create_document_record or upload_file fails during POST /upload,
\* the response has status 500.
StoreFailureAnswers500 ==
    (resp.op = "upload" /\ resp.shape = "error" /\ resp.body = "STORAGE_ERROR") => resp.code = 500

\* C19: every error response of every endpoint has the body
\* {error: {code, message, timestamp, requestId}}.
ErrorsAreStructured ==
    resp.code >= 400 => resp.shape = "error"

\* C20: a step that answers GET /status/{id} leaves the records, the buckets,
\* the pending uploads, the runs and the clock as they are, whatever the
\* upload and the runs are doing, and every status request gets an answer
\* with status 200, 404 or 500.
StatusIsReadOnly ==
    /\ [](Idle => \A id \in RequestIds, o \in StoreOutcomes, signed \in StoreOutcomes,
                      e \in StatusElapsed : ENABLED StatusRequest(id, o, signed, e))
    /\ [][(Idle /\ resp'.op = "status")
             => /\ UNCHANGED <<docs, uploads, processed, pending, tasks, clock>>
                /\ resp'.code \in {200, 404, 500}]_vars

\* A status request has been answered while a run of the record is active
StatusPolledDuringRun ==
    /\ resp.op = "status"
    /\ resp.code = 200
    /\ \E i \in 1..Len(tasks) : tasks[i].doc = resp.id /\ Active(tasks[i])

====
